---- MODULE Spec2Model ----
(***************************************************************************)
(* Verification model of the cursor smoothing and particle trail code of   *)
(* supabase-realtime-multiplayer.                                          *)
(*                                                                         *)
(*   createInterpolatedPosition  src/components/ping-indicator.jsx 71-200  *)
(*   createParticleSystem        src/utils/particles.js            9-112   *)
(*                                                                         *)
(* Numbers.  The code computes in IEEE doubles.  The model computes in     *)
(* fixed point: one unit is 1/Scale of a pixel, every product or quotient  *)
(* is truncated toward zero, sums are exact.  Times are in milliseconds.   *)
(* The last-bit rounding of doubles is not represented.                    *)
(***************************************************************************)
EXTENDS Integers, Sequences, FiniteSets, TLC

(***************************************************************************)
(* Arithmetic helpers                                                      *)
(***************************************************************************)
Scale == 10 * 10

Abs(n) == IF n < 0 THEN -n ELSE n

Min(a, b) == IF a < b THEN a ELSE b

Max(a, b) == IF a > b THEN a ELSE b

\* Quotient truncated toward zero (b > 0).
TruncDiv(a, b) == IF a >= 0 THEN a \div b ELSE -((-a) \div b)

\* For t = <<n, lo, hi>>: the least r in lo..hi with r * r >= n (hi * hi >= n
\* is given), by bisection.
SqrtSearch[t \in Nat \X Nat \X Nat] ==
  IF t[2] >= t[3] THEN t[3]
  ELSE LET mid == (t[2] + t[3]) \div 2
       IN IF mid * mid >= t[1] THEN SqrtSearch[<< t[1], t[2], mid >>]
          ELSE SqrtSearch[<< t[1], mid + 1, t[3] >>]

\* Math.sqrt rounded up to a whole unit (n < 2^31).
CeilSqrt(n) == SqrtSearch[<< n, 0, 46340 >>]

\* Math.sqrt rounded down to a whole unit.
FloorSqrt(n) == LET r == CeilSqrt(n) IN IF r * r = n THEN r ELSE r - 1

Pt(px, py) == [x |-> px * Scale, y |-> py * Scale]

ZeroVec == [x |-> 0, y |-> 0]

(***************************************************************************)
(* Program constants                                                       *)
(***************************************************************************)
\* Array(5): the trail capacity.
TrailCapacity == 5
\* distance < 0.5, as a denominator: the snap threshold is Scale / SnapDen.
SnapDen == 2
\* dampingFactor = 0.7 = DampingNum / DampingDen.
DampingNum == 7
DampingDen == 10
\* Math.min(timestamp - lastUpdateTime, 33)
MaxFrameMs == 33
\* / 16.67, times 100.
FrameRefX100 == 1667

\* emissionRate = 3: pixels between particle emissions.
emissionRate == 3
\* lifetime = 800: the particle lifetime in milliseconds, before the random
\* factor 0.8 + Math.random() * 0.4.
lifetime == 800

\* The (smoothFactor * 100, maxSpeed) pairs the page passes for the local
\* and for the remote cursors.
Profiles ==
  { [smoothFactor |-> 100, maxSpeed |-> 100 * Scale],
    [smoothFactor |-> 8,   maxSpeed |-> 20 * Scale] }

\* Smooth factors and maximal speeds tried for convergence: the two profiles,
\* and the defaults (0.2, 30), in every combination.
LiveProfiles ==
  [ smoothFactor : { 8, 20, 100 },
    maxSpeed : { 20 * Scale, 30 * Scale, 100 * Scale } ]

(***************************************************************************)
(* Bounds of the model                                                     *)
(***************************************************************************)
\* Frame callbacks run in one behaviour of Spec.
MaxFrames == 7
\* updateTargetPosition calls in one behaviour.
MaxUpdates == 2
\* cleanup calls in one behaviour.
MaxCleanups == 1

\* update calls on the particle system in one behaviour.
MaxAdvances == 3
\* Clock steps in one behaviour.
MaxTicks == 9

\* Positions a smoother is seeded with, and targets it is given.
Far == Pt(5000, 0)
Seeds == { Pt(0, 0), Pt(3, 4) }
Targets == { Pt(0, 0), Pt(10, 10), Far }

\* Milliseconds between two successive frame timestamps (the display's
\* refresh period; 50 is a throttled page and exercises the 33 ms cap).
FramePeriods == { 8, 17, 50 }
\* timestamp - performance.now() for the first frame after a start: the
\* frame's timestamp is taken when the frame begins, so it may equal or
\* precede the performance.now() of a task that ran just before the callback.
FirstGaps == { -4, 0, 9 }

\* Handles requestAnimationFrame returns.  A handle is reused only once it
\* is neither pending nor stored, which no code of the smoother can observe.
FrameIds == 1 .. 3
NoFrame == 0

\* Cursor positions handed to the particle system's update: 9 px, 2.99 px
\* and 5 px (diagonal) from the origin.
CursorPoints ==
  { Pt(0, 0), Pt(9, 0), [x |-> 3 * Scale - 1, y |-> 0], Pt(3, 4) }
\* One step of performance.now(), in milliseconds.
TickMs == 8 * 10
\* Values of lifetime * (0.8 + Math.random() * 0.4): the least and the middle.
Lifetimes == { (lifetime * 8) \div 10, lifetime }
\* lastPosition = null
NoPosition == [none |-> TRUE]

VARIABLES
  \* createInterpolatedPosition: arguments
  initialPosition, smoothFactor, maxSpeed,
  \* createInterpolatedPosition: closure state
  currentPosition, targetPosition, velocity, trailPositions,
  animationFrameId, isAnimating, lastUpdateTime,
  \* the browser: pending requestAnimationFrame callbacks of this smoother,
  \* and the display's frame period
  rafQueue, framePeriod,
  \* history: what the last cleanup found ("no": none since the last
  \* updateTargetPosition), and counts of the calls made
  cleaned, frames, updates, cleanups,
  \* createParticleSystem: closure state
  particles, lastPosition, distanceSinceLastEmit,
  \* performance.now()
  now,
  \* the particles the call of this step drew on the canvas (render), and
  \* the number it created (update)
  drawn, lastEmitted,
  \* history: the last call made, and the count of update calls
  lastCall, advances,
  \* history, kept under SpecAccumulator: the path length the update calls
  \* covered and the particles they created since the system was made, and
  \* whether clear was called
  totalTravelled, totalEmitted, wasCleared

svars == << initialPosition, smoothFactor, maxSpeed, currentPosition,
            targetPosition, velocity, trailPositions, animationFrameId,
            isAnimating, lastUpdateTime, rafQueue, framePeriod,
            cleaned, frames, updates, cleanups >>

pvars == << particles, lastPosition, distanceSinceLastEmit, now, drawn,
            lastEmitted, lastCall, advances, totalTravelled, totalEmitted,
            wasCleared >>

\* The page (Home) and the browser's frame
VARIABLES
  \* the browser's list of animation frame callbacks, in the order they were
  \* requested: "driver" is updateInterpolatedPositions, "animate" the
  \* smoother's callback
  rafOrder,
  \* the position updateInterpolatedPositions last read for the entity
  \* (interpolatedUsers), NoPosition before its first run
  interpolatedUsers,
  \* userInterpolatorsRef.current, userParticlesRef.current and
  \* rawUsersRef.current: functions from user ids
  userInterpolators, userParticles, rawUsers,
  \* the clientId state of Home, and the value of it the closure of the
  \* connection effect (dependencies []) holds
  clientId, closureClientId,
  \* history, per user id: departures seen by the users update callback, the
  \* cleanup and clear calls it made for them, whether a cleanup found a
  \* frame requested (cancelled), and whether a smoother it dropped still
  \* had a frame requested (pending)
  departures

dvars == << rafOrder, interpolatedUsers, userInterpolators, userParticles,
            rawUsers, clientId, closureClientId, departures >>

\* colors.js
VARIABLES
  \* colorMap: the Map of assigned colours, as a function from user ids, and
  \* the order in which its keys were set
  colorMap, colorOrder,
  \* the last getUserColor call ([none |-> TRUE] when the last operation was
  \* not one) and the value it returned
  colorCall, returnedColor,
  \* history: for each user id, the first colour getUserColor returned for
  \* it with isCurrentUser false since the last resetColorMap
  firstColors

cvars == << colorMap, colorOrder, colorCall, returnedColor, firstColors >>

\* connectRealtime.js: the ping measurement of one connection
VARIABLES
  \* initRealtimeConnection: closure state (NoTimer for null)
  pingInterval, pingTimeout, pingStartTime, currentPing,
  \* channel: "none" before connect(), then "created"; "unsubscribed" after
  \* disconnect()
  channel,
  \* the browser: the armed timers, each [id, kind], kind being "interval"
  \* (setInterval of startPingMeasurement), "timeout" (the PING_TIMEOUT
  \* timer) or "response" (the 5 ms timer of the simulated response)
  timers,
  \* SUBSCRIBED notifications whose handler is at await channel.track(...)
  subscribing,
  \* history: the last measurePing call ([none |-> TRUE] when the last
  \* operation made none), the ping requests sent, the last value given to
  \* onPingUpdate, and the count of measurePing calls
  pingCall, pingSends, pingReport, pingCalls

rvars == << pingInterval, pingTimeout, pingStartTime, currentPing, channel,
            timers, subscribing, pingCall, pingSends, pingReport, pingCalls >>

VARIABLES
  \* initRealtimeConnection: users, as the list of its entries [id, x, y] in
  \* the order their keys were set (the order Object.values gives)
  users,
  \* the list last handed to onUsersUpdate, and the count of its calls
  usersList, usersCallbacks,
  \* updateMousePosition: where the call in progress is ([pc |-> "idle"]
  \* when none is), and what the last call has done so far
  mouseCall, callLog,
  \* history: the last channel event handled or list change made, the keys
  \* whose leave was handled and that no later sync has listed, and the
  \* counts of events handled and of updateMousePosition calls
  lastEvent, gone, presenceEvents, mouseCalls

uvars == << users, usersList, usersCallbacks, mouseCall, callLog, lastEvent,
            gone, presenceEvents, mouseCalls >>

VARIABLES
  \* Home: the mousePosition and connectionStatus states and throttleRef.current
  mousePosition, connectionStatus, throttleRef,
  \* the browser: the times at which the armed 33 ms timers are due, and the
  \* time in milliseconds
  throttleTimers, mouseClock,
  \* history: the arguments of the last updateMousePosition call (NoPosition
  \* before the first), the time and the connectionStatus of every call, the
  \* connectionStatus at the last mouse move ("none" before the first),
  \* whether the mouse has stopped for good, and the count of moves
  lastSent, sendLog, lastMoveStatus, mouseStopped, mouseMoves

mvars == << mousePosition, connectionStatus, throttleRef, throttleTimers,
            mouseClock, lastSent, sendLog, lastMoveStatus, mouseStopped,
            mouseMoves >>

nvars == << uvars, mvars >>

xvars == << dvars, cvars, rvars, nvars >>

vars == << svars, pvars, xvars >>

\* Home at mount: the effect of lines 328-355 has requested the first frame
\* for updateInterpolatedPositions; no users update has arrived.
\* User ids: generateClientId's "user-N"; LocalId is the one getClientId
\* of this page's connection returns.
LocalId == "user-1"
UserIds == { LocalId, "user-2" }

InitHome ==
  /\ rafOrder = << "driver" >>
  /\ interpolatedUsers = NoPosition
  /\ userInterpolators = << >>
  /\ userParticles = << >>
  /\ rawUsers = << >>
  /\ clientId = ""
  /\ closureClientId = clientId
  /\ departures = [id \in UserIds |-> [count |-> 0, cleanups |-> 0, clears |-> 0,
                                        cancelled |-> FALSE, pending |-> FALSE]]

\* colors.js when the module is loaded.
InitColors ==
  /\ colorMap = << >>
  /\ colorOrder = << >>
  /\ colorCall = [none |-> TRUE]
  /\ returnedColor = ""
  /\ firstColors = << >>

\* pingInterval = null, pingTimeout = null
NoTimer == 0

\* initRealtimeConnection, lines 17-27.
initRealtimeConnection ==
  /\ pingInterval = NoTimer
  /\ pingTimeout = NoTimer
  /\ pingStartTime = 0
  /\ currentPing = 0
  /\ channel = "none"
  /\ timers = {}
  /\ subscribing = 0
  /\ pingCall = [none |-> TRUE]
  /\ pingSends = 0
  /\ pingReport = "none"
  /\ pingCalls = 0

\* initRealtimeConnection: users = {} and no call made.
InitUsers ==
  /\ users = << >>
  /\ usersList = << >>
  /\ usersCallbacks = 0
  /\ mouseCall = [pc |-> "idle"]
  /\ callLog = << >>
  /\ lastEvent = [kind |-> "none"]
  /\ gone = {}
  /\ presenceEvents = 0
  /\ mouseCalls = 0

\* Home: the state of the mouse tracking after the first render.
InitMouse ==
  /\ mousePosition = [x |-> 0, y |-> 0]
  /\ connectionStatus = "connecting"
  /\ throttleRef = FALSE
  /\ throttleTimers = {}
  /\ mouseClock = 0
  /\ lastSent = NoPosition
  /\ sendLog = << >>
  /\ lastMoveStatus = "none"
  /\ mouseStopped = FALSE
  /\ mouseMoves = 0

XInit == InitHome /\ InitColors /\ initRealtimeConnection /\ InitUsers /\ InitMouse

(***************************************************************************)
(* createInterpolatedPosition                                              *)
(***************************************************************************)
createInterpolatedPosition(seeds, profiles) ==
  /\ initialPosition \in seeds
  /\ \E p \in profiles :
       /\ smoothFactor = p.smoothFactor
       /\ maxSpeed = p.maxSpeed
  /\ currentPosition = initialPosition
  /\ targetPosition = initialPosition
  /\ velocity = ZeroVec
  /\ trailPositions = [i \in 1 .. TrailCapacity |-> initialPosition]
  /\ animationFrameId = NoFrame
  /\ isAnimating = FALSE
  /\ lastUpdateTime = "zero"

\* The browser and the page when the smoother is created: nothing is
\* requested, nothing has been called.
InitCallers(periods) ==
  /\ rafQueue = {}
  /\ framePeriod \in periods
  /\ cleaned = "no"
  /\ frames = 0
  /\ updates = 0
  /\ cleanups = 0

\* requestAnimationFrame's return value with q pending and old stored.
FreshId(q, old) == CHOOSE i \in FrameIds : i \notin q /\ i # old /\
                     \A j \in FrameIds : (j \notin q /\ j # old) => i <= j

\* startAnimation requesting the frame without raising isAnimating.
startAnimation_NoFlag(q) ==
  /\ animationFrameId' = FreshId(q, animationFrameId)
  /\ rafQueue' = q \cup { FreshId(q, animationFrameId) }
  /\ UNCHANGED isAnimating

\* startAnimation, with q the pending callbacks.
startAnimation(q) ==
  /\ isAnimating' = TRUE
  /\ animationFrameId' = FreshId(q, animationFrameId)
  /\ rafQueue' = q \cup { FreshId(q, animationFrameId) }

\* updateTargetPosition restarting the motion: it also zeroes the velocity.
updateTargetPosition_Restart(newPosition) ==
  /\ targetPosition' = newPosition
  /\ velocity' = ZeroVec
  /\ IF ~isAnimating
     THEN /\ lastUpdateTime' = "now"
          /\ startAnimation(rafQueue)
     ELSE UNCHANGED << lastUpdateTime, isAnimating, animationFrameId, rafQueue >>
  /\ UNCHANGED << currentPosition, trailPositions >>

updateTargetPosition(newPosition) ==
  /\ targetPosition' = newPosition
  /\ IF ~isAnimating
     THEN /\ lastUpdateTime' = "now"
          /\ startAnimation(rafQueue)
     ELSE UNCHANGED << lastUpdateTime, isAnimating, animationFrameId, rafQueue >>
  /\ UNCHANGED << currentPosition, velocity, trailPositions >>

\* The snap test as an exact comparison, distance === 0.
isCloseEnough_Exact(d) == d = ZeroVec

\* distance < 0.5, for d = target - current.
isCloseEnough(d) ==
  /\ Abs(d.x) * SnapDen < Scale
  /\ Abs(d.y) * SnapDen < Scale
  /\ (d.x * d.x + d.y * d.y) * SnapDen * SnapDen < Scale * Scale

\* deltaTime * 16.67, in milliseconds.
deltaTimeMs(gap) == Min(gap, MaxFrameMs)

\* velocity * dampingFactor + d * springFactor, one coordinate;
\* springFactor = smoothFactor * deltaTime = sf * ms / FrameRefX100.
SpringVelocity(v, d, sf, ms) ==
  TruncDiv(v * DampingNum, DampingDen) + TruncDiv(d * sf * ms, FrameRefX100)

\* A vector with the direction of v whose coordinates fit 15 bits.
Reduce(v) ==
  LET f == (Max(Abs(v.x), Abs(v.y)) \div 16384) + 1
  IN [x |-> TruncDiv(v.x, f), y |-> TruncDiv(v.y, f)]

\* currentSpeed > maxSpeed
ExceedsSpeed(v, m) ==
  \/ Abs(v.x) > m
  \/ Abs(v.y) > m
  \/ v.x * v.x + v.y * v.y > m * m

\* velocity *= maxSpeed / currentSpeed
Rescale(v, m) ==
  LET r == Reduce(v)
      s == CeilSqrt(r.x * r.x + r.y * r.y)
  IN [x |-> TruncDiv(r.x * m, s), y |-> TruncDiv(r.y * m, s)]

\* The velocity left unlimited.
LimitVelocity_NoClamp(v, m) == v

\* Limit velocity to max speed.
LimitVelocity(v, m) == IF ExceedsSpeed(v, m) THEN Rescale(v, m) ELSE v

\* unshift without the pop.
ShiftTrail_NoPop(trail, pos) == << pos >> \o trail

\* trailPositions.pop(); trailPositions.unshift(pos)
ShiftTrail(trail, pos) == << pos >> \o SubSeq(trail, 1, Len(trail) - 1)

\* The snap branch requesting another frame, as the spring branch does.
SnapStep_KeepsScheduling(q) ==
  /\ velocity' = ZeroVec
  /\ currentPosition' = targetPosition
  /\ isAnimating' = FALSE
  /\ animationFrameId' = FreshId(q, animationFrameId)
  /\ rafQueue' = q \cup { FreshId(q, animationFrameId) }
  /\ UNCHANGED trailPositions

\* The snap branch of animate.
SnapStep(q) ==
  /\ velocity' = ZeroVec
  /\ currentPosition' = targetPosition
  /\ isAnimating' = FALSE
  /\ rafQueue' = q
  /\ UNCHANGED << trailPositions, animationFrameId >>

\* The spring branch of animate.
SpringStep(q, d, ms) ==
  LET v == LimitVelocity(
             [x |-> SpringVelocity(velocity.x, d.x, smoothFactor, ms),
              y |-> SpringVelocity(velocity.y, d.y, smoothFactor, ms)],
             maxSpeed)
      c == [x |-> currentPosition.x + v.x, y |-> currentPosition.y + v.y]
  IN /\ velocity' = v
     /\ currentPosition' = c
     /\ trailPositions' = ShiftTrail(trailPositions, c)
     /\ animationFrameId' = FreshId(q, animationFrameId)
     /\ rafQueue' = q \cup { FreshId(q, animationFrameId) }
     /\ UNCHANGED isAnimating

\* animate(timestamp), with gap = timestamp - lastUpdateTime and q the
\* callbacks still pending once this one has been taken.
animate(q, gap) ==
  LET d == [x |-> targetPosition.x - currentPosition.x,
            y |-> targetPosition.y - currentPosition.y]
  IN /\ lastUpdateTime' = "frame"
     /\ IF isCloseEnough(d) THEN SnapStep(q) ELSE SpringStep(q, d, deltaTimeMs(gap))
     /\ UNCHANGED targetPosition

getCurrentPosition == currentPosition

getTrailPositions == trailPositions

\* cleanup without the cancelAnimationFrame.
cleanup_NoCancel ==
  /\ isAnimating' = FALSE
  /\ UNCHANGED << currentPosition, targetPosition, velocity, trailPositions,
                  animationFrameId, lastUpdateTime, rafQueue >>

cleanup ==
  /\ IF animationFrameId # NoFrame
     THEN rafQueue' = rafQueue \ { animationFrameId }
     ELSE UNCHANGED rafQueue
  /\ isAnimating' = FALSE
  /\ UNCHANGED << currentPosition, targetPosition, velocity, trailPositions,
                  animationFrameId, lastUpdateTime >>

(***************************************************************************)
(* createParticleSystem                                                    *)
(***************************************************************************)
createParticleSystem ==
  /\ particles = << >>
  /\ lastPosition = NoPosition
  /\ distanceSinceLastEmit = 0

\* The clock, the canvas and the page when the system is created.
InitParticleCallers ==
  /\ now = 0
  /\ drawn = << >>
  /\ lastEmitted = 0
  /\ lastCall = "none"
  /\ advances = 0
  /\ totalTravelled = 0
  /\ totalEmitted = 0
  /\ wasCleared = FALSE

\* createParticle(x, y) at time t, with the lifetime the random factor
\* gives.  The random offset, size and alpha only change how it is drawn.
createParticle(px, py, t, life) ==
  [x |-> px, y |-> py, createdAt |-> t, lifetime |-> life]

\* The filter of update: the particles with age < lifetime at time t.
Alive(ps, t) == SelectSeq(ps, LAMBDA q : t - q.createdAt < q.lifetime)

\* Math.sqrt(dx * dx + dy * dy)
Distance(dx, dy) == FloorSqrt(dx * dx + dy * dy)

\* Math.floor(distanceSinceLastEmit / emissionRate)
Steps(acc) == acc \div (emissionRate * Scale)

\* The loop bound with <= for <.
EmitIndexes_Inclusive(steps) == 0 .. steps

\* for (let i = 0; i < steps; i++)
EmitIndexes(steps) == 0 .. (steps - 1)

\* The particles one update call creates at time t: one for each i of the
\* loop, at last + (dx / steps, dy / steps) * i, with the lifetime life.
Emitted(last, dx, dy, steps, t, life) ==
  [k \in 1 .. Cardinality(EmitIndexes(steps)) |->
     createParticle(last.x + TruncDiv(dx * (k - 1), steps),
                    last.y + TruncDiv(dy * (k - 1), steps),
                    t, life)]

\* update creating a particle at the position of a seeding call.
update_EmitOnSeed(position, life) ==
  LET kept == Alive(particles, now)
  IN IF lastPosition # NoPosition
     THEN LET dx == position.x - lastPosition.x
              dy == position.y - lastPosition.y
              acc == distanceSinceLastEmit + Distance(dx, dy)
              new == IF acc >= emissionRate * Scale
                     THEN Emitted(lastPosition, dx, dy, Steps(acc), now, life)
                     ELSE << >>
          IN /\ particles' = kept \o new
             /\ lastEmitted' = Len(new)
             /\ distanceSinceLastEmit' = acc % (emissionRate * Scale)
             /\ lastPosition' = position
     ELSE /\ particles' = Append(kept, createParticle(position.x, position.y, now, life))
          /\ lastEmitted' = 1
          /\ lastPosition' = position
          /\ UNCHANGED distanceSinceLastEmit

\* update dropping the remainder when it emits, instead of carrying it.
update_DropRemainder(position, life) ==
  LET kept == Alive(particles, now)
  IN IF lastPosition # NoPosition
     THEN LET dx == position.x - lastPosition.x
              dy == position.y - lastPosition.y
              acc == distanceSinceLastEmit + Distance(dx, dy)
          IN IF acc >= emissionRate * Scale
             THEN LET new == Emitted(lastPosition, dx, dy, Steps(acc), now, life)
                  IN /\ particles' = kept \o new
                     /\ lastEmitted' = Len(new)
                     /\ distanceSinceLastEmit' = 0
                     /\ lastPosition' = position
             ELSE /\ particles' = kept
                  /\ lastEmitted' = 0
                  /\ distanceSinceLastEmit' = acc
                  /\ lastPosition' = position
     ELSE /\ particles' = kept
          /\ lastEmitted' = 0
          /\ lastPosition' = position
          /\ UNCHANGED distanceSinceLastEmit

\* update(position), with life the lifetime Math.random gives.
update(position, life) ==
  LET kept == Alive(particles, now)
  IN IF lastPosition # NoPosition
     THEN LET dx == position.x - lastPosition.x
              dy == position.y - lastPosition.y
              acc == distanceSinceLastEmit + Distance(dx, dy)
          IN IF acc >= emissionRate * Scale
             THEN LET new == Emitted(lastPosition, dx, dy, Steps(acc), now, life)
                  IN /\ particles' = kept \o new
                     /\ lastEmitted' = Len(new)
                     /\ distanceSinceLastEmit' = acc % (emissionRate * Scale)
                     /\ lastPosition' = position
             ELSE /\ particles' = kept
                  /\ lastEmitted' = 0
                  /\ distanceSinceLastEmit' = acc
                  /\ lastPosition' = position
     ELSE /\ particles' = kept
          /\ lastEmitted' = 0
          /\ lastPosition' = position
          /\ UNCHANGED distanceSinceLastEmit

\* render(ctx): every particle of the array is drawn.
render == drawn' = particles

clear ==
  /\ particles' = << >>
  /\ lastPosition' = NoPosition
  /\ UNCHANGED distanceSinceLastEmit

getParticleCount == Len(particles)

(***************************************************************************)
(* The particle system's callers                                           *)
(***************************************************************************)
\* One update call.  The particles of one call get the same lifetime.
Advance ==
  /\ advances < MaxAdvances
  /\ \E pos \in CursorPoints : \E life \in Lifetimes : update(pos, life)
  /\ advances' = advances + 1
  /\ lastCall' = "update"
  /\ drawn' = << >>
  /\ UNCHANGED << now, totalTravelled, totalEmitted, wasCleared, svars, xvars >>

Render ==
  /\ render
  /\ lastCall' = "render"
  /\ lastEmitted' = 0
  /\ UNCHANGED << particles, lastPosition, distanceSinceLastEmit, now,
                  advances, totalTravelled, totalEmitted, wasCleared, svars, xvars >>

Clear ==
  /\ clear
  /\ lastCall' = "clear"
  /\ drawn' = << >>
  /\ lastEmitted' = 0
  /\ UNCHANGED << now, advances, totalTravelled, totalEmitted, wasCleared,
                  svars, xvars >>

\* performance.now() advances.
Tick ==
  /\ now < MaxTicks * TickMs
  /\ now' = now + TickMs
  /\ lastCall' = "tick"
  /\ drawn' = << >>
  /\ lastEmitted' = 0
  /\ UNCHANGED << particles, lastPosition, distanceSinceLastEmit, advances,
                  totalTravelled, totalEmitted, wasCleared, svars, xvars >>

ParticleInit ==
  /\ createInterpolatedPosition({ Pt(0, 0) }, { [smoothFactor |-> 8, maxSpeed |-> 20 * Scale] })
  /\ InitCallers({ 17 })
  /\ createParticleSystem
  /\ InitParticleCallers
  /\ XInit

ParticleNext == Advance \/ Render \/ Clear \/ Tick

SpecParticles == ParticleInit /\ [][ParticleNext]_vars

(***************************************************************************)
(* The smoother's callers: the page and the browser                        *)
(***************************************************************************)
\* timestamp - lastUpdateTime for the next frame callback.
FrameGaps ==
  CASE lastUpdateTime = "now"   -> FirstGaps
    [] lastUpdateTime = "frame" -> { framePeriod }
    [] OTHER                    -> { MaxFrameMs + 1 }

UpdateTarget ==
  /\ updates < MaxUpdates
  /\ \E p \in Targets : updateTargetPosition(p)
  /\ updates' = updates + 1
  /\ cleaned' = "no"
  /\ UNCHANGED << initialPosition, smoothFactor, maxSpeed, framePeriod,
                  frames, cleanups, pvars, xvars >>

\* The browser runs one pending callback.
Frame ==
  /\ frames < MaxFrames
  /\ \E id \in rafQueue : \E gap \in FrameGaps : animate(rafQueue \ { id }, gap)
  /\ frames' = frames + 1
  /\ UNCHANGED << initialPosition, smoothFactor, maxSpeed, framePeriod,
                  cleaned, updates, cleanups, pvars, xvars >>

Cleanup ==
  /\ cleanups < MaxCleanups
  /\ cleanup
  /\ cleaned' = IF animationFrameId \in rafQueue THEN "cancelled" ELSE "idle"
  /\ cleanups' = cleanups + 1
  /\ UNCHANGED << initialPosition, smoothFactor, maxSpeed, framePeriod,
                  frames, updates, pvars, xvars >>

Init ==
  /\ createInterpolatedPosition(Seeds, Profiles)
  /\ InitCallers(FramePeriods)
  /\ createParticleSystem
  /\ InitParticleCallers
  /\ XInit

Next == UpdateTarget \/ Frame \/ Cleanup

Spec == Init /\ [][Next]_vars

(***************************************************************************)
(* One target, then frames for ever: the smoother left to converge         *)
(***************************************************************************)
LiveTargets == { Pt(0, 0), Pt(1, 0), Pt(10, 10), Pt(300, 0) }

LiveInit ==
  /\ createInterpolatedPosition(Seeds, LiveProfiles)
  /\ InitCallers(FramePeriods)
  /\ createParticleSystem
  /\ InitParticleCallers
  /\ XInit

\* The one updateTargetPosition call.
LiveUpdateTarget ==
  /\ updates = 0
  /\ \E p \in LiveTargets : updateTargetPosition(p)
  /\ updates' = 1
  /\ UNCHANGED << initialPosition, smoothFactor, maxSpeed, framePeriod,
                  cleaned, frames, cleanups, pvars, xvars >>

\* The browser runs one pending callback (frames are not counted here).
LiveFrame ==
  /\ \E id \in rafQueue : \E gap \in FrameGaps : animate(rafQueue \ { id }, gap)
  /\ UNCHANGED << initialPosition, smoothFactor, maxSpeed, framePeriod,
                  cleaned, frames, updates, cleanups, pvars, xvars >>

LiveNext == LiveUpdateTarget \/ LiveFrame

\* The browser runs a requested callback at the next frame.
SpecLive == LiveInit /\ [][LiveNext]_vars /\ WF_vars(LiveFrame)

(***************************************************************************)
(* Claims about the position smoother                                      *)
(***************************************************************************)
Moved == << currentPosition, velocity, trailPositions >>

Converged ==
  /\ ~isAnimating
  /\ currentPosition = targetPosition
  /\ velocity = ZeroVec

\* C1: once cleanup has been called, the smoother requests no animation
\* frame again, whatever calls follow (updateTargetPosition included).
C1_NoRequestAfterCleanup ==
  [][cleanups > 0 => rafQueue' \subseteq rafQueue]_vars

\* C3: once the snap step has run, no frame callback is pending, and the
\* current position, the velocity and the trail stay as they are in every
\* step that is not an updateTargetPosition call.
C3_NoDriftOnceConverged ==
  [][/\ Converged' => rafQueue' = {}
     /\ (Converged /\ updates' = updates) => UNCHANGED Moved]_vars

C3_Witness ==
  /\ Converged
  /\ cleaned = "no"
  /\ frames >= 2
  /\ currentPosition # initialPosition

\* C4: in every frame step the current position moves by at most maxSpeed.
C4_SpeedCap ==
  [][frames' # frames =>
       LET mx == currentPosition'.x - currentPosition.x
           my == currentPosition'.y - currentPosition.y
       IN /\ Abs(mx) <= maxSpeed
          /\ Abs(my) <= maxSpeed
          /\ mx * mx + my * my <= maxSpeed * maxSpeed]_vars

\* The first frame after a 5000 px jump from rest moved exactly maxSpeed.
C4_Witness ==
  /\ initialPosition = Pt(0, 0)
  /\ targetPosition = Far
  /\ frames = 1
  /\ currentPosition = [x |-> maxSpeed, y |-> 0]

\* C5: getTrailPositions returns exactly 5 entries in every reachable state.
C5_TrailSize == Len(getTrailPositions) = TrailCapacity

\* The whole trail has been shifted out, and cleanup has been called.
C5_Witness ==
  /\ frames > TrailCapacity
  /\ cleanups > 0
  /\ trailPositions[TrailCapacity] # initialPosition

\* C6: after a cleanup, and until the next updateTargetPosition, no frame
\* callback is pending and the current position, the velocity and the trail
\* are not changed.
C6_CancelOnDispose ==
  [][cleaned' # "no" =>
       /\ rafQueue' = {}
       /\ cleaned # "no" => UNCHANGED Moved]_vars

\* A cleanup that found its callback scheduled, in mid flight.
C6_Witness ==
  /\ cleaned = "cancelled"
  /\ frames > 0
  /\ ~isCloseEnough([x |-> targetPosition.x - currentPosition.x,
                     y |-> targetPosition.y - currentPosition.y])

\* C7: updateTargetPosition leaves the current position, the velocity and
\* the trail unchanged; it starts the loop and stamps the time exactly when
\* the smoother was idle; the current position changes only in frame steps.
C7_UpdateTargetFrame ==
  [][/\ updates' # updates =>
          /\ UNCHANGED Moved
          /\ isAnimating =>
               UNCHANGED << isAnimating, rafQueue, animationFrameId, lastUpdateTime >>
          /\ ~isAnimating =>
               /\ isAnimating'
               /\ rafQueue' # rafQueue
               /\ lastUpdateTime' = "now"
     /\ currentPosition' # currentPosition => frames' # frames]_vars

\* A retarget in mid flight: moving right, and sent back to the seed.
C7_Witness ==
  /\ initialPosition = Pt(0, 0)
  /\ targetPosition = Pt(0, 0)
  /\ updates = 2
  /\ frames = 1
  /\ isAnimating
  /\ velocity.x > 0

C8_EmissionSpacing ==
  [][(advances' # advances /\ lastPosition # NoPosition) =>
       LET moved == Distance(lastPosition'.x - lastPosition.x,
                             lastPosition'.y - lastPosition.y)
           total == distanceSinceLastEmit + moved
           spacing == emissionRate * Scale
       IN /\ lastEmitted' = total \div spacing
          /\ distanceSinceLastEmit' = total % spacing
          /\ Len(particles') = Len(Alive(particles, now)) + lastEmitted'
          /\ (distanceSinceLastEmit = 0 /\ moved = 3 * spacing) => lastEmitted' = 3
          /\ (distanceSinceLastEmit = 0 /\ moved < spacing) => lastEmitted' = 0]_vars

\* update((0,0)) then update((9,0)) on a new system: 3 particles.
C8_Witness ==
  /\ lastCall = "update"
  /\ advances = 2
  /\ lastPosition = Pt(9, 0)
  /\ distanceSinceLastEmit = 0
  /\ lastEmitted = 3
  /\ Len(particles) = 3

\* C9: render draws no particle whose age has reached its lifetime.
C9_NoExpiredParticleDrawn ==
  \A k \in 1 .. Len(drawn) : now - drawn[k].createdAt < drawn[k].lifetime

\* C10: after clear the system is as createParticleSystem left it: no
\* particle, no previous position, nothing in the distance accumulator.
C10_ClearResets ==
  lastCall = "clear" =>
    /\ particles = << >>
    /\ lastPosition = NoPosition
    /\ distanceSinceLastEmit = 0

\* C11: an update call made with no previous position recorded (the first
\* after creation or after clear) creates no particle, leaves the particles
\* and the distance accumulator as they are, and records the position.
C11_SeedingCall ==
  [][(advances' # advances /\ lastPosition = NoPosition) =>
       /\ lastEmitted' = 0
       /\ particles' = particles
       /\ distanceSinceLastEmit' = distanceSinceLastEmit
       /\ lastPosition' \in CursorPoints]_vars

\* The seeding call after a clear: update((0,0)), update((2.99,0)), clear,
\* update((9,0)); the 2.99 px carried are still in the accumulator.
C11_Witness ==
  /\ lastCall = "update"
  /\ advances = 3
  /\ now = 0
  /\ lastPosition = Pt(9, 0)
  /\ distanceSinceLastEmit = 3 * Scale - 1
  /\ particles = << >>
  /\ lastEmitted = 0

(***************************************************************************)
(* Non-finite numbers.  A coordinate a caller passes may be NaN, Infinity  *)
(* or -Infinity; they are three values above every finite value of the     *)
(* model, and the operators below are the IEEE rules for + - * / sqrt and   *)
(* the comparisons, with the fixed-point operators on finite operands.      *)
(***************************************************************************)
NaN == 2 ^ 30
PosInf == NaN + 1
NegInf == NaN + 2

IsNaN(a) == a = NaN
IsInf(a) == a = PosInf \/ a = NegInf
IsFinite(a) == ~IsNaN(a) /\ ~IsInf(a)
FiniteVec(v) == IsFinite(v.x) /\ IsFinite(v.y)

\* -a
ExtNeg(a) ==
  CASE IsNaN(a)   -> NaN
    [] a = PosInf -> NegInf
    [] a = NegInf -> PosInf
    [] OTHER      -> -a

\* a + b
ExtAdd(a, b) ==
  CASE IsNaN(a) \/ IsNaN(b)     -> NaN
    [] IsInf(a) /\ IsInf(b)     -> IF a = b THEN a ELSE NaN
    [] IsInf(a)                 -> a
    [] IsInf(b)                 -> b
    [] OTHER                    -> a + b

\* a - b
ExtSub(a, b) == ExtAdd(a, ExtNeg(b))

\* a * (num / den), for a finite factor num / den with den > 0.
ExtMulRat(a, num, den) ==
  CASE IsNaN(a) -> NaN
    [] IsInf(a) -> IF num = 0 THEN NaN
                   ELSE IF num > 0 THEN a ELSE ExtNeg(a)
    [] OTHER    -> TruncDiv(a * num, den)

\* Math.sqrt(dx * dx + dy * dy) of a non-finite vector: NaN when a
\* coordinate is NaN, Infinity otherwise.
ExtNorm(d) == IF IsNaN(d.x) \/ IsNaN(d.y) THEN NaN ELSE PosInf

\* Limit velocity to max speed, for a velocity that may be non-finite:
\* a NaN speed compares false and leaves it; an infinite speed gives
\* scaleFactor = maxSpeed / Infinity = 0, and Infinity * 0 is NaN.
ExtLimitVelocity(v, m) ==
  CASE FiniteVec(v)        -> LimitVelocity(v, m)
    [] ExtNorm(v) = PosInf -> [x |-> ExtMulRat(v.x, 0, 1), y |-> ExtMulRat(v.y, 0, 1)]
    [] OTHER               -> v

\* animate(timestamp) when the target, the current position or the velocity
\* may be non-finite.  distance < 0.5 is false for a NaN or infinite
\* distance, so the spring branch runs.
animateExt(q, gap) ==
  IF FiniteVec(targetPosition) /\ FiniteVec(currentPosition) /\ FiniteVec(velocity)
  THEN animate(q, gap)
  ELSE LET d == [x |-> ExtSub(targetPosition.x, currentPosition.x),
                 y |-> ExtSub(targetPosition.y, currentPosition.y)]
           k == smoothFactor * deltaTimeMs(gap)
           v == ExtLimitVelocity(
                  [x |-> ExtAdd(ExtMulRat(velocity.x, DampingNum, DampingDen),
                                ExtMulRat(d.x, k, FrameRefX100)),
                   y |-> ExtAdd(ExtMulRat(velocity.y, DampingNum, DampingDen),
                                ExtMulRat(d.y, k, FrameRefX100))],
                  maxSpeed)
           c == [x |-> ExtAdd(currentPosition.x, v.x),
                 y |-> ExtAdd(currentPosition.y, v.y)]
       IN /\ lastUpdateTime' = "frame"
          /\ IF FiniteVec(d) /\ isCloseEnough(d)
             THEN SnapStep(q)
             ELSE /\ velocity' = v
                  /\ currentPosition' = c
                  /\ trailPositions' = ShiftTrail(trailPositions, c)
                  /\ animationFrameId' = FreshId(q, animationFrameId)
                  /\ rafQueue' = q \cup { FreshId(q, animationFrameId) }
                  /\ UNCHANGED isAnimating
          /\ UNCHANGED targetPosition

\* update(position) when a coordinate or the accumulator may be non-finite.
\* A NaN accumulator compares false with emissionRate: nothing is emitted
\* and the position is recorded.  An infinite accumulator gives
\* steps = Infinity and the loop for (i = 0; i < steps; i++) does not end:
\* the call does not return and line 72 is not reached.
updateExt(position, life) ==
  IF \/ lastPosition = NoPosition
     \/ FiniteVec(position) /\ FiniteVec(lastPosition) /\ IsFinite(distanceSinceLastEmit)
  THEN update(position, life)
  ELSE LET d == [x |-> ExtSub(position.x, lastPosition.x),
                 y |-> ExtSub(position.y, lastPosition.y)]
           dist == IF FiniteVec(d) THEN Distance(d.x, d.y) ELSE ExtNorm(d)
           acc == ExtAdd(distanceSinceLastEmit, dist)
       IN /\ particles' = Alive(particles, now)
          /\ lastEmitted' = 0
          /\ distanceSinceLastEmit' = acc
          /\ IF IsNaN(acc) THEN lastPosition' = position ELSE UNCHANGED lastPosition

\* The script is inside a call that does not return.
Hung == "update (no return)"

\* Targets and cursor positions with the non-finite coordinates a caller
\* may pass.
ExtTargets ==
  { Pt(10, 10), [x |-> NaN, y |-> 0], [x |-> PosInf, y |-> 10 * Scale] }
ExtCursorPoints ==
  { Pt(0, 0), Pt(9, 0), [x |-> NaN, y |-> 0], [x |-> NegInf, y |-> 0] }

ExtUpdateTarget ==
  /\ lastCall # Hung
  /\ updates < MaxUpdates
  /\ \E p \in ExtTargets : updateTargetPosition(p)
  /\ updates' = updates + 1
  /\ UNCHANGED << initialPosition, smoothFactor, maxSpeed, framePeriod,
                  cleaned, frames, cleanups, pvars, xvars >>

ExtFrame ==
  /\ lastCall # Hung
  /\ frames < MaxFrames
  /\ \E id \in rafQueue : \E gap \in FrameGaps : animateExt(rafQueue \ { id }, gap)
  /\ frames' = frames + 1
  /\ UNCHANGED << initialPosition, smoothFactor, maxSpeed, framePeriod,
                  cleaned, updates, cleanups, pvars, xvars >>

ExtAdvance ==
  /\ lastCall # Hung
  /\ advances < MaxAdvances
  /\ \E pos \in ExtCursorPoints : updateExt(pos, lifetime)
  /\ advances' = advances + 1
  /\ lastCall' = IF distanceSinceLastEmit' = PosInf THEN Hung ELSE "update"
  /\ UNCHANGED << now, drawn, totalTravelled, totalEmitted, wasCleared, svars, xvars >>

ExtInit ==
  /\ createInterpolatedPosition({ Pt(0, 0) }, Profiles)
  /\ InitCallers({ 17 })
  /\ createParticleSystem
  /\ InitParticleCallers
  /\ XInit

ExtNext == ExtUpdateTarget \/ ExtFrame \/ ExtAdvance

SpecNonFinite == ExtInit /\ [][ExtNext]_vars

(***************************************************************************)
(* Claims about non-finite input                                           *)
(***************************************************************************)
\* C12: whatever coordinates updateTargetPosition and update are given, the
\* smoother's current position and velocity and the particle system's
\* recorded position and distance accumulator stay finite.
C12_NonFiniteContained ==
  /\ FiniteVec(currentPosition)
  /\ FiniteVec(velocity)
  /\ lastPosition # NoPosition => FiniteVec(lastPosition)
  /\ IsFinite(distanceSinceLastEmit)

(***************************************************************************)
(* The page's frame loop and the smoother's, in one browser frame          *)
(***************************************************************************)
\* The browser runs the callbacks of a frame in the order of their
\* requestAnimationFrame calls.
RunsBefore(order, a, b) ==
  \E i, j \in 1 .. Len(order) : i < j /\ order[i] = a /\ order[j] = b

\* The users update callback for an entity that has its smoother (lines
\* 261-267); a start of the loop requests a frame after those requested.
DriverUpdateTarget ==
  /\ updates < MaxUpdates
  /\ \E p \in Targets : updateTargetPosition(p)
  /\ rafOrder' = IF isAnimating THEN rafOrder ELSE Append(rafOrder, "animate")
  /\ updates' = updates + 1
  /\ cleaned' = "no"
  /\ UNCHANGED << initialPosition, smoothFactor, maxSpeed, framePeriod,
                  frames, cleanups, interpolatedUsers, userInterpolators,
                  userParticles, rawUsers, clientId, closureClientId,
                  departures, pvars, cvars, rvars, nvars >>

\* One browser frame: every callback requested before it runs, in order.
\* updateInterpolatedPositions reads getCurrentPosition and requests the
\* next frame; animate steps the smoother and requests the next frame
\* unless it snapped.
BrowserFrame ==
  /\ frames < MaxFrames
  /\ IF rafQueue # {}
     THEN /\ \E id \in rafQueue : \E gap \in FrameGaps : animate(rafQueue \ { id }, gap)
          /\ frames' = frames + 1
     ELSE UNCHANGED << currentPosition, targetPosition, velocity, trailPositions,
                       animationFrameId, isAnimating, lastUpdateTime, rafQueue,
                       frames >>
  /\ interpolatedUsers' = IF RunsBefore(rafOrder, "animate", "driver")
                          THEN currentPosition'
                          ELSE getCurrentPosition
  /\ rafOrder' = SelectSeq(rafOrder, LAMBDA c : c = "driver" \/ rafQueue' # {})
  /\ UNCHANGED << initialPosition, smoothFactor, maxSpeed, framePeriod,
                  cleaned, updates, cleanups, userInterpolators,
                  userParticles, rawUsers, clientId, closureClientId,
                  departures, pvars, cvars, rvars, nvars >>

DriverInit ==
  /\ createInterpolatedPosition(Seeds, Profiles)
  /\ InitCallers(FramePeriods)
  /\ createParticleSystem
  /\ InitParticleCallers
  /\ XInit

DriverNext == DriverUpdateTarget \/ BrowserFrame

SpecDriver == DriverInit /\ [][DriverNext]_vars

\* C13: in every browser frame in which the smoother stepped, the position
\* the page's frame loop read is the position after that step.
C13_ConsumerSeesUpdate ==
  [][frames' # frames => interpolatedUsers' = currentPosition']_vars

(***************************************************************************)
(* The scenario of the local profile: smoothFactor 1.0, maxSpeed 100, seed *)
(* (0,0), target (10,10), every frame about 16 ms after the one before     *)
(***************************************************************************)
\* timestamp - lastUpdateTime of a frame of the scenario, the first included.
ScenarioGaps == { 16, 17 }

ScenarioInit ==
  /\ createInterpolatedPosition({ Pt(0, 0) },
                                { [smoothFactor |-> 100, maxSpeed |-> 100 * Scale] })
  /\ InitCallers({ 17 })
  /\ createParticleSystem
  /\ InitParticleCallers
  /\ XInit

ScenarioUpdateTarget ==
  /\ updates = 0
  /\ updateTargetPosition(Pt(10, 10))
  /\ updates' = 1
  /\ UNCHANGED << initialPosition, smoothFactor, maxSpeed, framePeriod,
                  cleaned, frames, cleanups, pvars, xvars >>

ScenarioFrame ==
  /\ frames < MaxFrames
  /\ \E id \in rafQueue : \E gap \in ScenarioGaps : animate(rafQueue \ { id }, gap)
  /\ frames' = frames + 1
  /\ UNCHANGED << initialPosition, smoothFactor, maxSpeed, framePeriod,
                  cleaned, updates, cleanups, pvars, xvars >>

ScenarioNext == ScenarioUpdateTarget \/ ScenarioFrame

SpecScenario == ScenarioInit /\ [][ScenarioNext]_vars

\* C14: in the scenario the current position differs from (0,0) after the
\* first frame, and after 5 frames the smoother has stopped at (10,10).
C14_ScenarioConverges ==
  /\ frames >= 1 => currentPosition # Pt(0, 0)
  /\ frames >= 5 => Converged /\ currentPosition = Pt(10, 10)

(***************************************************************************)
(* Home: the users update callback and the smoothers it owns               *)
(***************************************************************************)
\* Users update callbacks in one behaviour.
MaxCallbacks == 3

\* Positions users report.
UserPoints == { Pt(0, 0), Pt(10, 10) }

\* The lists onUsersUpdate may deliver: a position for each id of a set.
UserLists == UNION { [ids -> UserPoints] : ids \in SUBSET UserIds }

\* What createInterpolatedPosition returns, as a value: the closure state of
\* one smoother (the trail left out), with pending for its requested frame.
NewInterpolator(pos, sf, ms) ==
  [currentPosition |-> pos, targetPosition |-> pos, velocity |-> ZeroVec,
   smoothFactor |-> sf, maxSpeed |-> ms, isAnimating |-> FALSE,
   pending |-> FALSE]

\* updateTargetPosition on that value.
Retarget(i, pos) ==
  [i EXCEPT !.targetPosition = pos,
            !.isAnimating = TRUE,
            !.pending = IF i.isAnimating THEN i.pending ELSE TRUE]

\* animate on that value, ms after the previous timestamp.
Stepped(i, ms) ==
  LET d == [x |-> i.targetPosition.x - i.currentPosition.x,
            y |-> i.targetPosition.y - i.currentPosition.y]
      v == LimitVelocity(
             [x |-> SpringVelocity(i.velocity.x, d.x, i.smoothFactor, ms),
              y |-> SpringVelocity(i.velocity.y, d.y, i.smoothFactor, ms)],
             i.maxSpeed)
  IN IF isCloseEnough(d)
     THEN [i EXCEPT !.velocity = ZeroVec, !.currentPosition = i.targetPosition,
                    !.isAnimating = FALSE, !.pending = FALSE]
     ELSE [i EXCEPT !.velocity = v,
                    !.currentPosition = [x |-> i.currentPosition.x + v.x,
                                         y |-> i.currentPosition.y + v.y],
                    !.pending = TRUE]

\* cleanup on that value.
Disposed(i) == [i EXCEPT !.isAnimating = FALSE, !.pending = FALSE]

\* What createParticleSystem returns, as a value.
NewParticleSystem ==
  [particles |-> << >>, lastPosition |-> NoPosition, distanceSinceLastEmit |-> 0]

\* const isCurrentUser = user.id === clientId, in the users update callback.
isCurrentUser(id) == id = closureClientId

\* The smoother the callback creates for a user: 1.0 / 100 for the current
\* user, 0.08 / 20 for the others.
CreatedFor(id, pos) ==
  IF isCurrentUser(id)
  THEN NewInterpolator(pos, 100, 100 * Scale)
  ELSE NewInterpolator(pos, 8, 20 * Scale)

\* A removal loop that removes nothing.
Departed_None(owned, listed) == {}

\* The ids the removal loop finds: keys that no listed user has.
Departed(owned, listed) == owned \ listed

\* The users update callback (lines 236-283) for the list updatedUsers.
onUsersUpdate(updatedUsers) ==
  LET listed == DOMAIN updatedUsers
      owned == DOMAIN userInterpolators
      left == Departed(owned, listed)
      withNew == [id \in owned \cup listed |->
                    IF id \notin owned THEN CreatedFor(id, updatedUsers[id])
                    ELSE IF id \in listed
                         THEN Retarget(userInterpolators[id], updatedUsers[id])
                         ELSE userInterpolators[id]]
      hadParticles == DOMAIN userParticles
      newParticles == { id \in listed \ owned : ~isCurrentUser(id) }
  IN /\ rawUsers' = updatedUsers
     /\ userInterpolators' = [id \in DOMAIN withNew \ left |-> withNew[id]]
     /\ userParticles' = [id \in (hadParticles \cup newParticles) \ left |->
                            IF id \in hadParticles THEN userParticles[id]
                            ELSE NewParticleSystem]
     /\ departures' =
          [id \in UserIds |->
             IF id \in left
             THEN [count |-> departures[id].count + 1,
                   cleanups |-> departures[id].cleanups + 1,
                   clears |-> departures[id].clears
                                + (IF id \in hadParticles THEN 1 ELSE 0),
                   cancelled |-> departures[id].cancelled \/ withNew[id].pending,
                   pending |-> departures[id].pending
                                 \/ Disposed(withNew[id]).pending]
             ELSE IF id \in owned \ listed
                  THEN [departures[id] EXCEPT !.count = @ + 1]
                  ELSE departures[id]]

\* setClientId(connection.getClientId()), before connect().
SetClientId ==
  /\ clientId = ""
  /\ clientId' = LocalId
  /\ UNCHANGED << rafOrder, interpolatedUsers, userInterpolators, userParticles,
                  rawUsers, closureClientId, departures, svars, pvars, cvars, rvars, nvars >>

\* The connection delivers a list of users.
UsersUpdate ==
  /\ clientId # ""
  /\ updates < MaxCallbacks
  /\ \E list \in UserLists : onUsersUpdate(list)
  /\ updates' = updates + 1
  /\ UNCHANGED << rafOrder, interpolatedUsers, clientId, closureClientId,
                  initialPosition, smoothFactor, maxSpeed, currentPosition,
                  targetPosition, velocity, trailPositions, animationFrameId,
                  isAnimating, lastUpdateTime, rafQueue, framePeriod, cleaned,
                  frames, cleanups, pvars, cvars, rvars, nvars >>

\* The browser runs the requested frame of one user's smoother.
EntityFrame ==
  /\ frames < MaxFrames
  /\ \E id \in DOMAIN userInterpolators :
       /\ userInterpolators[id].pending
       /\ userInterpolators' =
            [userInterpolators EXCEPT ![id] = Stepped(@, deltaTimeMs(framePeriod))]
  /\ frames' = frames + 1
  /\ UNCHANGED << rafOrder, interpolatedUsers, userParticles, rawUsers,
                  clientId, closureClientId, departures,
                  initialPosition, smoothFactor, maxSpeed, currentPosition,
                  targetPosition, velocity, trailPositions, animationFrameId,
                  isAnimating, lastUpdateTime, rafQueue, framePeriod, cleaned,
                  updates, cleanups, pvars, cvars, rvars, nvars >>

HomeInit ==
  /\ createInterpolatedPosition({ Pt(0, 0) }, { [smoothFactor |-> 8, maxSpeed |-> 20 * Scale] })
  /\ InitCallers({ 17 })
  /\ createParticleSystem
  /\ InitParticleCallers
  /\ XInit

HomeNext == SetClientId \/ UsersUpdate \/ EntityFrame

SpecHome == HomeInit /\ [][HomeNext]_vars

(***************************************************************************)
(* Claims about Home                                                       *)
(***************************************************************************)
\* C15: after every users update callback the ids that own a smoother are
\* the ids of the delivered list; a smoother created by the callback has the
\* reported position as current and as target; every departure got one
\* cleanup, which left no frame requested, and one clear if the id had a
\* particle system; only ids with a smoother have a particle system.
C15_EntityLifecycle ==
  [][updates' # updates =>
       /\ DOMAIN userInterpolators' = DOMAIN rawUsers'
       /\ \A id \in DOMAIN userInterpolators' \ DOMAIN userInterpolators :
            /\ userInterpolators'[id].currentPosition = rawUsers'[id]
            /\ userInterpolators'[id].targetPosition = rawUsers'[id]
       /\ DOMAIN userParticles' \subseteq DOMAIN userInterpolators'
       /\ \A id \in UserIds :
            /\ departures'[id].cleanups = departures'[id].count
            /\ ~departures'[id].pending
            /\ (id \in DOMAIN userParticles /\ id \notin DOMAIN rawUsers')
                 => departures'[id].clears = departures[id].clears + 1]_vars

\* user-2 was created, retargeted, stepped, and left while its frame was
\* requested; the local user stays.
C15_Witness ==
  /\ updates = 3
  /\ frames > 0
  /\ DOMAIN userInterpolators = { LocalId }
  /\ departures["user-2"].count = 1
  /\ departures["user-2"].cancelled
  /\ departures["user-2"].clears = 1

\* C16: the smoother of the id getClientId returns has smoothFactor 1.0 and
\* maxSpeed 100 and no particle system; every other smoother has 0.08 and 20
\* and a particle system.
C16_PerEntityProfile ==
  \A id \in DOMAIN userInterpolators :
    IF id = LocalId
    THEN /\ userInterpolators[id].smoothFactor = 100
         /\ userInterpolators[id].maxSpeed = 100 * Scale
         /\ id \notin DOMAIN userParticles
    ELSE /\ userInterpolators[id].smoothFactor = 8
         /\ userInterpolators[id].maxSpeed = 20 * Scale
         /\ id \in DOMAIN userParticles

(***************************************************************************)
(* More claims about the position smoother                                 *)
(***************************************************************************)
\* C17: a frame step that changes the current position shifts the trail by
\* one slot, the new current position in front and the oldest entry
\* dropped; every other step leaves the trail as it is; after a step that
\* changed the current position the front entry is the current position.
C17_TrailShiftRule ==
  [][/\ (frames' # frames /\ currentPosition' # currentPosition)
          => trailPositions' = << currentPosition' >>
                                 \o SubSeq(trailPositions, 1, TrailCapacity - 1)
     /\ ~(frames' # frames /\ currentPosition' # currentPosition)
          => trailPositions' = trailPositions
     /\ currentPosition' # currentPosition
          => trailPositions'[1] = currentPosition']_vars

\* C18: no frame step carries the current position beyond the target: the
\* vector from the current position to the target does not reverse.
C18_NoOvershoot ==
  [][frames' # frames =>
       LET dx == targetPosition.x - currentPosition.x
           dy == targetPosition.y - currentPosition.y
           ex == targetPosition'.x - currentPosition'.x
           ey == targetPosition'.y - currentPosition'.y
       IN dx * ex + dy * ey >= 0]_vars

(***************************************************************************)
(* colors.js                                                               *)
(***************************************************************************)
USER_COLORS ==
  << "bg-red-500", "bg-green-500", "bg-blue-500", "bg-yellow-500",
     "bg-purple-500", "bg-pink-500", "bg-indigo-500", "bg-teal-500",
     "bg-orange-500", "bg-cyan-500" >>

\* User ids given to getUserColor: k stands for the k-th distinct id.
MaxColorIds == 11
ColorIds == 1 .. MaxColorIds

\* The index one past the next free palette slot.
colorIndex_Skip(size) == (size + 1) % Len(USER_COLORS)

\* const colorIndex = colorMap.size % USER_COLORS.length
colorIndex(size) == size % Len(USER_COLORS)

\* getUserColor(userId, isCurrentUser): the value returned and the Map.
getUserColor(userId, isCurrent) ==
  IF isCurrent
  THEN /\ returnedColor' = "bg-primary"
       /\ UNCHANGED << colorMap, colorOrder >>
  ELSE IF userId \in DOMAIN colorMap
       THEN /\ returnedColor' = colorMap[userId]
            /\ UNCHANGED << colorMap, colorOrder >>
       ELSE LET color == USER_COLORS[colorIndex(Cardinality(DOMAIN colorMap)) + 1]
            IN /\ colorMap' = [id \in DOMAIN colorMap \cup { userId } |->
                                 IF id = userId THEN color ELSE colorMap[id]]
               /\ colorOrder' = Append(colorOrder, userId)
               /\ returnedColor' = color

\* resetColorMap()
resetColorMap ==
  /\ colorMap' = << >>
  /\ colorOrder' = << >>

\* A caller asks for the colour of a user it has asked for before or of the
\* next new one (ids are interchangeable, so new ids come in order).
GetUserColor ==
  /\ \E userId \in ColorIds : \E isCurrent \in BOOLEAN :
       /\ userId <= Cardinality(DOMAIN colorMap \cup DOMAIN firstColors) + 1
       /\ getUserColor(userId, isCurrent)
       /\ colorCall' = [userId |-> userId, isCurrentUser |-> isCurrent]
       /\ firstColors' = IF isCurrent \/ userId \in DOMAIN firstColors
                         THEN firstColors
                         ELSE [id \in DOMAIN firstColors \cup { userId } |->
                                 IF id = userId THEN returnedColor'
                                 ELSE firstColors[id]]
  /\ UNCHANGED << svars, pvars, dvars, rvars, nvars >>

ResetColorMap ==
  /\ resetColorMap
  /\ colorCall' = [none |-> TRUE]
  /\ firstColors' = << >>
  /\ UNCHANGED << returnedColor, svars, pvars, dvars, rvars, nvars >>

ColorsInit ==
  /\ createInterpolatedPosition({ Pt(0, 0) }, { [smoothFactor |-> 8, maxSpeed |-> 20 * Scale] })
  /\ InitCallers({ 17 })
  /\ createParticleSystem
  /\ InitParticleCallers
  /\ XInit

ColorsNext == GetUserColor \/ ResetColorMap

SpecColors == ColorsInit /\ [][ColorsNext]_vars

\* C19: between two resetColorMap calls, a getUserColor call with
\* isCurrentUser false returns the colour the first such call for that id
\* returned; a call with isCurrentUser true returns bg-primary and leaves
\* the Map as it is; the first ten ids set in the Map have the ten palette
\* colours, in palette order, all different.
C19_ConsistentColor ==
  [][colorCall' # [none |-> TRUE] =>
       /\ IF colorCall'.isCurrentUser
          THEN returnedColor' = "bg-primary" /\ colorMap' = colorMap
          ELSE /\ returnedColor' = firstColors'[colorCall'.userId]
               /\ \A id \in DOMAIN firstColors : firstColors'[id] = firstColors[id]
       /\ \A k \in 1 .. Len(colorOrder') :
            k <= Len(USER_COLORS) => colorMap'[colorOrder'[k]] = USER_COLORS[k]
       /\ \A j, k \in 1 .. Len(colorOrder') :
            (j < k /\ k <= Len(USER_COLORS))
              => colorMap'[colorOrder'[j]] # colorMap'[colorOrder'[k]]]_vars

\* Eleven ids have a colour (the eleventh the first palette colour again),
\* and the first id is asked for again.
C19_Witness ==
  /\ Len(colorOrder) = 11
  /\ colorMap[11] = USER_COLORS[1]
  /\ colorCall = [userId |-> 1, isCurrentUser |-> FALSE]
  /\ returnedColor = USER_COLORS[1]

(***************************************************************************)
(* connectRealtime.js: ping measurement                                    *)
(***************************************************************************)
\* measurePing calls in one behaviour.
MaxPingCalls == 4
\* SUBSCRIBED handlers waiting at channel.track at one time.
MaxSubscribing == 2
\* Clock steps in one behaviour of the ping measurement.
MaxPingTicks == 3

NoPingCall == [none |-> TRUE]

TimersOf(ts, kind) == { t \in ts : t.kind = kind }

\* The id setTimeout or setInterval returns with the timers ts armed: one
\* that no armed timer has.
FreshTimer(ts) ==
  CHOOSE i \in 1 .. (Cardinality(ts) + 1) :
    /\ \A t \in ts : t.id # i
    /\ \A j \in 1 .. (Cardinality(ts) + 1) : (\A t \in ts : t.id # j) => i <= j

\* clearTimeout(id) / clearInterval(id)
ClearTimer(ts, id) == { t \in ts : t.id # id }

\* A guard that never finds a measurement in flight.
PingBusy_Never(timeout) == FALSE

\* if (pingTimeout) return
PingBusy(timeout) == timeout # NoTimer

\* measurePing() with the timers ts armed; throws: channel.send throws (it
\* does when channel is undefined).  The closure state and timers it leaves.
measurePing(ts, throws) ==
  IF PingBusy(pingTimeout)
  THEN [timers |-> ts, pingTimeout |-> pingTimeout, pingStartTime |-> pingStartTime,
        pingSends |-> pingSends, pingReport |-> pingReport]
  ELSE LET t == FreshTimer(ts)
           armed == ts \cup { [id |-> t, kind |-> "timeout"] }
       IN IF throws \/ channel = "none"
          THEN [timers |-> ClearTimer(armed, t), pingTimeout |-> NoTimer,
                pingStartTime |-> now, pingSends |-> pingSends,
                pingReport |-> [value |-> -1]]
          ELSE [timers |-> armed \cup { [id |-> FreshTimer(armed), kind |-> "response"] },
                pingTimeout |-> t, pingStartTime |-> now,
                pingSends |-> pingSends + 1, pingReport |-> pingReport]

\* The assignments of a handler that ends with the state m of measurePing.
Measured(m, by) ==
  /\ pingTimeout' = m.pingTimeout
  /\ pingStartTime' = m.pingStartTime
  /\ pingSends' = m.pingSends
  /\ pingReport' = m.pingReport
  /\ pingCall' = [by |-> by, busy |-> PingBusy(pingTimeout)]
  /\ pingCalls' = pingCalls + 1

\* startPingMeasurement()
startPingMeasurement(throws) ==
  LET cleared == IF pingInterval # NoTimer THEN ClearTimer(timers, pingInterval)
                 ELSE timers
      m == measurePing(cleared, throws)
      i == FreshTimer(m.timers)
  IN /\ Measured(m, "start")
     /\ pingInterval' = i
     /\ timers' = m.timers \cup { [id |-> i, kind |-> "interval"] }

\* disconnect()
disconnect ==
  /\ pingInterval' = NoTimer
  /\ pingTimeout' = NoTimer
  /\ timers' = ClearTimer(ClearTimer(timers, pingInterval), pingTimeout)
  /\ channel' = IF channel = "none" THEN "none" ELSE "unsubscribed"

\* connect(): the channel is created and subscribed.
Connect ==
  /\ channel = "none"
  /\ channel' = "created"
  /\ pingCall' = NoPingCall
  /\ UNCHANGED << pingInterval, pingTimeout, pingStartTime, currentPing, timers,
                  subscribing, pingSends, pingReport, pingCalls,
                  svars, pvars, dvars, cvars, nvars >>

\* The subscribe callback is called with SUBSCRIBED and waits at
\* await channel.track(...).
Subscribed ==
  /\ channel = "created"
  /\ subscribing < MaxSubscribing
  /\ subscribing' = subscribing + 1
  /\ pingCall' = NoPingCall
  /\ UNCHANGED << pingInterval, pingTimeout, pingStartTime, currentPing, timers,
                  channel, pingSends, pingReport, pingCalls,
                  svars, pvars, dvars, cvars, nvars >>

\* channel.track resolved: the handler goes on to startPingMeasurement().
TrackDone ==
  /\ subscribing > 0
  /\ pingCalls < MaxPingCalls
  /\ \E throws \in BOOLEAN : startPingMeasurement(throws)
  /\ subscribing' = subscribing - 1
  /\ UNCHANGED << currentPing, channel, svars, pvars, dvars, cvars, nvars >>

\* channel.track rejected: the handler ends there.
TrackFailed ==
  /\ subscribing > 0
  /\ subscribing' = subscribing - 1
  /\ pingCall' = NoPingCall
  /\ UNCHANGED << pingInterval, pingTimeout, pingStartTime, currentPing, timers,
                  channel, pingSends, pingReport, pingCalls,
                  svars, pvars, dvars, cvars, nvars >>

\* The PING_INTERVAL timer fires.
IntervalFires ==
  /\ pingCalls < MaxPingCalls
  /\ TimersOf(timers, "interval") # {}
  /\ \E throws \in BOOLEAN :
       LET m == measurePing(timers, throws)
       IN Measured(m, "interval") /\ timers' = m.timers
  /\ UNCHANGED << pingInterval, currentPing, channel, subscribing,
                  svars, pvars, dvars, cvars, nvars >>

\* A caller uses the measurePing the connection returns.
ManualPing ==
  /\ pingCalls < MaxPingCalls
  /\ \E throws \in BOOLEAN :
       LET m == measurePing(timers, throws)
       IN Measured(m, "manual") /\ timers' = m.timers
  /\ UNCHANGED << pingInterval, currentPing, channel, subscribing,
                  svars, pvars, dvars, cvars, nvars >>

\* The PING_TIMEOUT timer fires.
TimeoutFires ==
  /\ \E t \in TimersOf(timers, "timeout") : timers' = timers \ { t }
  /\ pingReport' = [value |-> -1]
  /\ pingTimeout' = NoTimer
  /\ pingCall' = NoPingCall
  /\ UNCHANGED << pingInterval, pingStartTime, currentPing, channel, subscribing,
                  pingSends, pingCalls, svars, pvars, dvars, cvars, nvars >>

\* The 5 ms timer of the simulated response fires.
ResponseFires ==
  /\ \E t \in TimersOf(timers, "response") :
       timers' = ClearTimer(timers \ { t }, pingTimeout)
  /\ currentPing' = (now - pingStartTime) + 5
  /\ pingTimeout' = NoTimer
  /\ pingReport' = [value |-> currentPing']
  /\ pingCall' = NoPingCall
  /\ UNCHANGED << pingInterval, pingStartTime, channel, subscribing,
                  pingSends, pingCalls, svars, pvars, dvars, cvars, nvars >>

Disconnect ==
  /\ disconnect
  /\ pingCall' = NoPingCall
  /\ UNCHANGED << pingStartTime, currentPing, subscribing, pingSends,
                  pingReport, pingCalls, svars, pvars, dvars, cvars, nvars >>

\* performance.now() advances.
PingTick ==
  /\ now < MaxPingTicks * TickMs
  /\ now' = now + TickMs
  /\ pingCall' = NoPingCall
  /\ UNCHANGED << pingInterval, pingTimeout, pingStartTime, currentPing, timers,
                  channel, subscribing, pingSends, pingReport, pingCalls,
                  particles, lastPosition, distanceSinceLastEmit, drawn,
                  lastEmitted, lastCall, advances, totalTravelled, totalEmitted,
                  wasCleared, svars, dvars, cvars, nvars >>

PingInit ==
  /\ createInterpolatedPosition({ Pt(0, 0) }, { [smoothFactor |-> 8, maxSpeed |-> 20 * Scale] })
  /\ InitCallers({ 17 })
  /\ createParticleSystem
  /\ InitParticleCallers
  /\ XInit

PingNext ==
  \/ Connect \/ Subscribed \/ TrackDone \/ TrackFailed \/ IntervalFires
  \/ ManualPing \/ TimeoutFires \/ ResponseFires \/ Disconnect \/ PingTick

SpecPing == PingInit /\ [][PingNext]_vars

\* C20: a measurePing call made while the timeout of a measurement is armed,
\* from the interval, from startPingMeasurement or by a caller, sends
\* nothing, arms no timeout or response timer and leaves pingStartTime and
\* pingTimeout as they are; at most one timeout timer and at most one
\* interval timer are armed at any time.
C20_OnePingInFlight ==
  [][/\ (pingCall' # NoPingCall /\ pingTimeout # NoTimer) =>
          /\ pingSends' = pingSends
          /\ pingStartTime' = pingStartTime
          /\ pingTimeout' = pingTimeout
          /\ pingReport' = pingReport
          /\ TimersOf(timers', "timeout") = TimersOf(timers, "timeout")
          /\ TimersOf(timers', "response") = TimersOf(timers, "response")
     /\ Cardinality(TimersOf(timers', "timeout")) <= 1
     /\ Cardinality(TimersOf(timers', "interval")) <= 1
     /\ pingTimeout' # NoTimer
          <=> TimersOf(timers', "timeout") = { [id |-> pingTimeout', kind |-> "timeout"] }]_vars

\* The interval fired while a measurement was waiting for its response,
\* after a second SUBSCRIBED had restarted the measurement.
C20_Witness ==
  /\ pingCall = [by |-> "interval", busy |-> TRUE]
  /\ pingTimeout # NoTimer
  /\ TimersOf(timers, "response") # {}
  /\ pingSends = 1
  /\ pingCalls = 3
  /\ now > pingStartTime

(***************************************************************************)
(* Scheduling of the smoother                                              *)
(***************************************************************************)
\* C23: between frame steps isAnimating is true exactly when one frame
\* callback of the smoother is pending, that callback is the one
\* animationFrameId names, and never more than one is pending, whatever the
\* order of updateTargetPosition, frame steps and cleanup.
C23_OnePendingFrame ==
  /\ Cardinality(rafQueue) <= 1
  /\ isAnimating <=> Cardinality(rafQueue) = 1
  /\ isAnimating => rafQueue = { animationFrameId }

\* The loop runs again after a cleanup and a frame step.
C23_Witness ==
  /\ isAnimating
  /\ rafQueue = { animationFrameId }
  /\ cleanups > 0
  /\ frames > 0

(***************************************************************************)
(* The emission accumulator                                                *)
(***************************************************************************)
\* One update call, with the path length and the particles counted.
CountedAdvance ==
  /\ advances < MaxAdvances
  /\ \E pos \in CursorPoints : \E life \in Lifetimes : update(pos, life)
  /\ advances' = advances + 1
  /\ lastCall' = "update"
  /\ drawn' = << >>
  /\ totalTravelled' = IF lastPosition = NoPosition THEN totalTravelled
                       ELSE totalTravelled + Distance(lastPosition'.x - lastPosition.x,
                                                      lastPosition'.y - lastPosition.y)
  /\ totalEmitted' = totalEmitted + lastEmitted'
  /\ UNCHANGED << now, wasCleared, svars, xvars >>

CountedClear ==
  /\ clear
  /\ lastCall' = "clear"
  /\ drawn' = << >>
  /\ lastEmitted' = 0
  /\ wasCleared' = TRUE
  /\ UNCHANGED << now, advances, totalTravelled, totalEmitted, svars, xvars >>

AccumulatorNext == CountedAdvance \/ CountedClear

SpecAccumulator == ParticleInit /\ [][AccumulatorNext]_vars

\* C24: after every update call the distance accumulator is at least 0 and
\* less than the emission spacing; while clear has not been called, the
\* particles created so far number floor(path length covered / spacing) and
\* the accumulator is the remainder of that division; an update call that
\* does not move creates nothing.
C24_AccumulatorConservation ==
  [][advances' # advances =>
       LET spacing == emissionRate * Scale
       IN /\ distanceSinceLastEmit' >= 0
          /\ distanceSinceLastEmit' < spacing
          /\ ~wasCleared' => /\ totalEmitted' = totalTravelled' \div spacing
                             /\ distanceSinceLastEmit' = totalTravelled' % spacing
          /\ lastPosition' = lastPosition => lastEmitted' = 0]_vars

\* Three update calls covering 2.99 px and then 2.99 px back: one particle,
\* created by the second move from the remainder the first one carried.
C24_Witness ==
  /\ lastCall = "update"
  /\ ~wasCleared
  /\ advances = 3
  /\ totalTravelled = 2 * (3 * Scale - 1)
  /\ totalEmitted = 1
  /\ lastEmitted = 1
  /\ distanceSinceLastEmit = 3 * Scale - 2

(***************************************************************************)
(* After disconnect                                                        *)
(***************************************************************************)
\* C25: once disconnect() has been called on a connected channel, no ping
\* timer is armed, no ping measurement is started and onPingUpdate is not
\* called again, also when disconnect comes while the simulated response of
\* a measurement is pending or before SUBSCRIBED has been handled.
C25_QuietAfterDisconnect ==
  [][/\ (channel # "unsubscribed" /\ channel' = "unsubscribed") => timers' = {}
     /\ (channel = "unsubscribed"
           /\ pingCall' \notin { [by |-> "manual", busy |-> b] : b \in BOOLEAN }) =>
          /\ timers' \subseteq timers
          /\ pingSends' = pingSends
          /\ pingStartTime' = pingStartTime
          /\ pingReport' = pingReport
          /\ currentPing' = currentPing]_vars

(***************************************************************************)
(* initRealtimeConnection: presence, broadcasts and updateMousePosition    *)
(***************************************************************************)
\* Channel events handled in one behaviour, and updateMousePosition calls.
MaxPresenceEvents == 3
MaxMouseCalls == 1

\* The presence keys of the room: the local client's and two others'.
PresenceKeys == UserIds \cup { "user-3" }
RemoteKeys == PresenceKeys \ { LocalId }
\* The first presence of a key: with both coordinates, or without x.
PresenceData == { [x |-> 5, y |-> 5], [y |-> 5] }
\* channel.presenceState(): presence data for some of the keys, of the same
\* shape for all of them.
PresenceStates ==
  UNION { [keys -> { data }] : keys \in SUBSET PresenceKeys, data \in PresenceData }
\* Object.keys(state): the keys in the order the object holds them.
KeyOrders(state) ==
  { o \in [1 .. Cardinality(DOMAIN state) -> DOMAIN state] :
      \A i, j \in DOMAIN o : o[i] = o[j] => i = j }
\* Coordinates a caller or a sender gives.
MouseCoords == { 8 }

\* presenceData.x || 0
OrZero(data, field) == IF field \in DOMAIN data THEN data[field] ELSE 0

\* Object.values(users).map(u => u.id), as a set
Ids(us) == { us[i].id : i \in DOMAIN us }

\* users[id] = { id, x, y }: the entry is replaced where the key exists and
\* added last where it does not.
Put(us, id, px, py) ==
  IF id \in Ids(us)
  THEN [i \in DOMAIN us |-> IF us[i].id = id THEN [id |-> id, x |-> px, y |-> py]
                            ELSE us[i]]
  ELSE Append(us, [id |-> id, x |-> px, y |-> py])

\* delete users[key]
Delete(us, key) == SelectSeq(us, LAMBDA u : u.id # key)

\* The forEach of the sync handler over the keys order[from], ...
RECURSIVE PutPresences(_, _, _, _)
PutPresences(us, state, order, from) ==
  IF from > Len(order) THEN us
  ELSE PutPresences(Put(us, order[from], OrZero(state[order[from]], "x"),
                        OrZero(state[order[from]], "y")),
                    state, order, from + 1)

\* A sync handler that keeps the entries it has.
Rebuilt_Keep(old) == old

\* users = {}
Rebuilt(old) == << >>

\* The presence 'sync' handler, with state = channel.presenceState().
OnPresenceSync(state, order) ==
  LET listed == PutPresences(Rebuilt(users), state, order, 1)
      all == IF LocalId \in Ids(listed) THEN listed ELSE Put(listed, LocalId, 0, 0)
  IN /\ users' = all
     /\ usersList' = all
     /\ usersCallbacks' = usersCallbacks + 1

\* The presence 'leave' handler.
OnPresenceLeave(key) ==
  /\ users' = Delete(users, key)
  /\ usersList' = users'
  /\ usersCallbacks' = usersCallbacks + 1

\* The 'mouse-move' broadcast handler.
OnMouseMove(senderId, px, py) ==
  /\ users' = Put(users, senderId, px, py)
  /\ usersList' = users'
  /\ usersCallbacks' = usersCallbacks + 1

\* A channel event is delivered: the channel exists and is subscribed.
Delivering ==
  /\ channel = "created"
  /\ presenceEvents < MaxPresenceEvents
  /\ presenceEvents' = presenceEvents + 1

PresenceSync ==
  /\ Delivering
  /\ \E state \in PresenceStates : \E order \in KeyOrders(state) :
       /\ OnPresenceSync(state, order)
       /\ lastEvent' = [kind |-> "sync", state |-> state, before |-> Ids(users)]
       /\ gone' = gone \ DOMAIN state
  /\ UNCHANGED << mouseCall, callLog, mouseCalls, svars, pvars, dvars, cvars, rvars, mvars >>

\* The 'join' handler only logs.
PresenceJoin ==
  /\ Delivering
  /\ lastEvent' = [kind |-> "join"]
  /\ UNCHANGED << users, usersList, usersCallbacks, mouseCall, callLog, gone,
                  mouseCalls, svars, pvars, dvars, cvars, rvars, mvars >>

\* A key leaves that an earlier sync or broadcast made known.
PresenceLeave ==
  /\ Delivering
  /\ \E key \in Ids(users) :
       /\ OnPresenceLeave(key)
       /\ lastEvent' = [kind |-> "leave", key |-> key]
       /\ gone' = gone \cup { key }
  /\ UNCHANGED << mouseCall, callLog, mouseCalls, svars, pvars, dvars, cvars, rvars, mvars >>

\* A 'mouse-move' broadcast of another client arrives (broadcast.self is
\* false); broadcasts and presence events are not ordered with each other.
MouseMoveBroadcast ==
  /\ Delivering
  /\ \E senderId \in RemoteKeys : \E px \in MouseCoords :
       /\ OnMouseMove(senderId, px, px)
       /\ lastEvent' = [kind |-> "mouse-move", key |-> senderId]
  /\ UNCHANGED << mouseCall, callLog, gone, mouseCalls, svars, pvars, dvars, cvars, rvars, mvars >>

\* updateMousePosition(x, y) up to its first await: it returns when there
\* is no channel, and otherwise calls channel.track.
UpdateMousePosition ==
  /\ mouseCall.pc = "idle"
  /\ mouseCalls < MaxMouseCalls
  /\ mouseCalls' = mouseCalls + 1
  /\ \E px \in MouseCoords :
       IF channel = "none"
       THEN /\ callLog' = << "no-channel" >>
            /\ UNCHANGED mouseCall
       ELSE /\ callLog' = << "track" >>
            /\ mouseCall' = [pc |-> "track", x |-> px, y |-> px]
  /\ UNCHANGED << users, usersList, usersCallbacks, lastEvent, gone,
                  presenceEvents, svars, pvars, dvars, cvars, rvars, mvars >>

\* channel.track settles.  Resolved: the local entry is updated and the
\* list handed over if users has the local key, and channel.send is called.
\* Rejected: the catch logs and the call returns.
TrackSettled ==
  /\ mouseCall.pc = "track"
  /\ \E ok \in BOOLEAN :
       IF ok
       THEN /\ IF LocalId \in Ids(users)
               THEN /\ users' = Put(users, LocalId, mouseCall.x, mouseCall.y)
                    /\ usersList' = users'
                    /\ usersCallbacks' = usersCallbacks + 1
                    /\ callLog' = callLog \o << "callback", "broadcast" >>
                    /\ lastEvent' = [kind |-> "update"]
               ELSE /\ callLog' = Append(callLog, "broadcast")
                    /\ UNCHANGED << users, usersList, usersCallbacks, lastEvent >>
            /\ mouseCall' = [mouseCall EXCEPT !.pc = "send"]
       ELSE /\ callLog' = Append(callLog, "track-failed")
            /\ mouseCall' = [pc |-> "idle"]
            /\ UNCHANGED << users, usersList, usersCallbacks, lastEvent >>
  /\ UNCHANGED << gone, presenceEvents, mouseCalls, svars, pvars, dvars, cvars, rvars, mvars >>

\* channel.send settles: the call returns, after the catch when rejected.
SendSettled ==
  /\ mouseCall.pc = "send"
  /\ \E ok \in BOOLEAN :
       callLog' = Append(callLog, IF ok THEN "returned" ELSE "send-failed")
  /\ mouseCall' = [pc |-> "idle"]
  /\ UNCHANGED << users, usersList, usersCallbacks, lastEvent, gone,
                  presenceEvents, mouseCalls, svars, pvars, dvars, cvars, rvars, mvars >>

PresenceNext ==
  \/ Connect \/ Disconnect \/ PresenceSync \/ PresenceJoin \/ PresenceLeave
  \/ MouseMoveBroadcast \/ UpdateMousePosition \/ TrackSettled \/ SendSettled

SpecPresence == PingInit /\ [][PresenceNext]_vars

\* C21: after every presence 'sync' event the list handed to onUsersUpdate
\* has exactly one entry for each key of the presence state and one for the
\* local client id, no id twice, and no user known only from earlier.
C21_SyncRebuildsUsers ==
  lastEvent.kind = "sync" =>
    LET expected == DOMAIN lastEvent.state \cup { LocalId }
    IN /\ usersList = users
       /\ Ids(usersList) = expected
       /\ Len(usersList) = Cardinality(expected)
       /\ \A i \in DOMAIN usersList :
            LET u == usersList[i]
            IN IF u.id \in DOMAIN lastEvent.state
               THEN /\ u.x = OrZero(lastEvent.state[u.id], "x")
                    /\ u.y = OrZero(lastEvent.state[u.id], "y")
               ELSE u.x = 0 /\ u.y = 0

\* A sync whose state lists two other users and not the local one, after a
\* user was known that it does not list.
C21_Witness ==
  /\ lastEvent.kind = "sync"
  /\ DOMAIN lastEvent.state = { "user-2" }
  /\ "user-3" \in lastEvent.before
  /\ Len(usersList) = 2
  /\ usersCallbacks > 1

\* C22: updateMousePosition called before connect sends nothing, calls no
\* callback and returns; when channel.track fails the users are left as they
\* are, onUsersUpdate is not called, nothing is broadcast and the call
\* returns; when it succeeds the call tracks, then updates the local entry
\* and calls onUsersUpdate, then broadcasts.  Stated for calls and steps made
\* before any disconnect.
C22_UpdateMousePosition ==
  [][(callLog' # callLog /\ channel # "unsubscribed") =>
       /\ callLog' \in { << "no-channel" >>,
                         << "track" >>,
                         << "track", "track-failed" >>,
                         << "track", "callback", "broadcast" >>,
                         << "track", "callback", "broadcast", "returned" >>,
                         << "track", "callback", "broadcast", "send-failed" >> }
       /\ callLog'[Len(callLog')] \in { "no-channel", "track-failed" } =>
            /\ mouseCall'.pc = "idle"
            /\ UNCHANGED << users, usersList, usersCallbacks >>
       /\ callLog'[Len(callLog')] = "callback" =>
            usersCallbacks' = usersCallbacks + 1]_vars

\* C26: a user whose presence 'leave' has been handled is in no later list
\* handed to onUsersUpdate until a presence sync lists the key again,
\* whatever the order of leave, sync and 'mouse-move' events.
C26_NoGhostUsers ==
  \A key \in gone \ { LocalId } : key \notin Ids(usersList)

(***************************************************************************)
(* Home: handleMouseMove and its throttle                                  *)
(***************************************************************************)
\* Mouse moves and clock steps in one behaviour.
MaxMoves == 3
MaxMouseTicks == 4
\* The delay of the throttle's setTimeout, and one step of the clock.
ThrottleMs == 33
MouseTickMs == ThrottleMs \div 3
\* event.clientX, event.clientY
MousePoints == { [x |-> 10, y |-> 10], [x |-> 20, y |-> 20] }

\* initConnection: connect() has returned, or thrown.
ConnectionSettled ==
  /\ connectionStatus = "connecting"
  /\ connectionStatus' \in { "connected", "error" }
  /\ UNCHANGED << mousePosition, throttleRef, throttleTimers, mouseClock, lastSent,
                  sendLog, lastMoveStatus, mouseStopped, mouseMoves,
                  svars, pvars, dvars, cvars, rvars, uvars >>

\* throttleRef.current
Throttled(flag) == flag

\* handleMouseMove(event), with realtimeConnectionRef.current set once the
\* status is "connected".
handleMouseMove(newPosition) ==
  /\ mousePosition' = newPosition
  /\ IF ~Throttled(throttleRef) /\ connectionStatus = "connected"
     THEN /\ throttleRef' = TRUE
          /\ lastSent' = newPosition
          /\ sendLog' = Append(sendLog, [at |-> mouseClock, status |-> connectionStatus])
          /\ throttleTimers' = throttleTimers \cup { mouseClock + ThrottleMs }
     ELSE UNCHANGED << throttleRef, lastSent, sendLog, throttleTimers >>

MouseMove ==
  /\ ~mouseStopped
  /\ mouseMoves < MaxMoves
  /\ \E newPosition \in MousePoints : handleMouseMove(newPosition)
  /\ mouseMoves' = mouseMoves + 1
  /\ lastMoveStatus' = connectionStatus
  /\ UNCHANGED << connectionStatus, mouseClock, mouseStopped,
                  svars, pvars, dvars, cvars, rvars, uvars >>

\* The user stops moving the mouse: no mousemove event follows.
MouseStops ==
  /\ ~mouseStopped
  /\ mouseMoves > 0
  /\ mouseStopped' = TRUE
  /\ UNCHANGED << mousePosition, connectionStatus, throttleRef, throttleTimers,
                  mouseClock, lastSent, sendLog, lastMoveStatus, mouseMoves,
                  svars, pvars, dvars, cvars, rvars, uvars >>

\* A throttle timer that is due fires: throttleRef.current = false.
ThrottleTimerFires ==
  /\ \E due \in throttleTimers :
       /\ due <= mouseClock
       /\ throttleTimers' = throttleTimers \ { due }
  /\ throttleRef' = FALSE
  /\ UNCHANGED << mousePosition, connectionStatus, mouseClock, lastSent, sendLog,
                  lastMoveStatus, mouseStopped, mouseMoves,
                  svars, pvars, dvars, cvars, rvars, uvars >>

MouseTick ==
  /\ mouseClock < MaxMouseTicks * MouseTickMs
  /\ mouseClock' = mouseClock + MouseTickMs
  /\ UNCHANGED << mousePosition, connectionStatus, throttleRef, throttleTimers,
                  lastSent, sendLog, lastMoveStatus, mouseStopped, mouseMoves,
                  svars, pvars, dvars, cvars, rvars, uvars >>

MouseNext ==
  \/ ConnectionSettled \/ MouseMove \/ MouseStops \/ ThrottleTimerFires \/ MouseTick

SpecMouse == PingInit /\ [][MouseNext]_vars

\* C27: updateMousePosition is called at most once in any 33 ms and only
\* while the status is "connected"; once the mouse has stopped after a move
\* made while connected and no throttle timer is armed any more, the last
\* position sent is the last mouse position observed.
C27_FinalPositionSent ==
  /\ \A i, j \in DOMAIN sendLog :
       i < j => sendLog[j].at - sendLog[i].at >= ThrottleMs
  /\ \A i \in DOMAIN sendLog : sendLog[i].status = "connected"
  /\ (mouseStopped /\ lastMoveStatus = "connected" /\ throttleTimers = {}) =>
       lastSent = mousePosition

====
